---- MODULE Spec2Model ----
(***************************************************************************)
(* A model of bevy_texture_utils: the tile map compositor                  *)
(* (src/src/tile_map_texture.rs), the layer compositor                     *)
(* (src/src/texture_mashup.rs) and the pixel mapper                        *)
(* (src/src/texture_modification.rs).                                      *)
(*                                                                         *)
(* An image is a record [width, height, format, data]; data is the flat    *)
(* row-major byte buffer.  The code indexes buffers from 0, a TLA+         *)
(* sequence from 1: byte i of the code is data[i + 1].                     *)
(***************************************************************************)
EXTENDS Integers, Sequences, FiniteSets, TLC

VARIABLES creator, images, texture, pc, call, result, mapperCalls

vars == <<creator, images, texture, pc, call, result, mapperCalls>>

(***************************************************************************)
(* Bounds of the model.                                                    *)
(***************************************************************************)
\* The longest sequence of placements handed to one call.
MaxPlacements == 2

\* usize is modelled with this many bits (the arithmetic wraps modulo
\* 2^UsizeBits exactly as the 64 bit arithmetic does; every true magnitude of
\* the model is far below 2^(UsizeBits - 1)).
UsizeBits == 12

\* The tile sizes <<tile_width, tile_height>> a creator is configured with.
TileSizes == {<<2, 2>>, <<3, 2>>, <<1, 2>>}

\* Grid coordinates of the tile placements (signed).
GridXs == {-1, 0, 1}
GridYs == {0, 1}

\* Pixel offsets and layers of the mashup placements.
OffsetXs == {0, 1}
OffsetYs == {0, 1}
OffsetZs == {-1, 0}

\* The longest side of a texture handed to the pixel mapper.
MaxTextureSide == 2

\* The longest sequence of calls made on one store.
MaxCalls == 2

(***************************************************************************)
(* Integer types.                                                          *)
(***************************************************************************)
UsizeModulus == 2 ^ UsizeBits

\* `n as usize` of a signed n (two's complement).
AsUsize(n) == n % UsizeModulus

\* `u as isize` of an unsigned u.
AsIsize(u) == IF u >= UsizeModulus \div 2 THEN u - UsizeModulus ELSE u

SetMax(S) == CHOOSE m \in S : \A n \in S : n <= m

SetMin(S) == CHOOSE m \in S : \A n \in S : m <= n

(***************************************************************************)
(* Images and the image store (Assets<Image>).                             *)
(***************************************************************************)
Rgba8UnormSrgb == "Rgba8UnormSrgb"

Rgba8Unorm == "Rgba8Unorm"

\* TextureFormat::pixel_size() of the two formats of the model.
pixel_size(format) == 4

NewImage(width, height, data, format) ==
    [width |-> width, height |-> height, format |-> format, data |-> data]

\* A buffer of n non-zero bytes, pairwise different for n < 255.
Pattern(seed, n) == [k \in 1..n |-> ((seed + 7 * k) % 255) + 1]

Zeros(n) == [k \in 1..n |-> 0]

\* Byte i (from 0) of a buffer.
At(data, i) == data[i + 1]

InRange(data, i) == i >= 0 /\ i < Len(data)

\* The handle no image of the store has (a weak handle of a default uuid).
UnloadedHandle == 0

\* Assets::get
Resolves(imgs, handle) == handle \in 1..Len(imgs)

\* AssetsAdd with the image put under the newest handle of the store instead
\* of under a new one.
AssetsSetLast(imgs, image) ==
    IF imgs = <<>> THEN <<image>> ELSE [imgs EXCEPT ![Len(imgs)] = image]

\* Assets::add: the store with the image added; its handle is the new length.
AssetsAdd(imgs, image) == Append(imgs, image)

\* The store a behaviour starts with, for a creator of tile size tw x th:
\* two tiles of the configured size and format, one of another format, and
\* one image that is one pixel wider than a tile.
InitialImages(tw, th) ==
    << NewImage(tw, th, Pattern(11, tw * th * 4), Rgba8UnormSrgb),
       NewImage(tw, th, Pattern(101, tw * th * 4), Rgba8UnormSrgb),
       NewImage(tw, th, Pattern(53, tw * th * 4), Rgba8Unorm),
       NewImage(tw + 1, th, Pattern(29, (tw + 1) * th * 4), Rgba8UnormSrgb) >>

(***************************************************************************)
(* Results of a call.                                                      *)
(***************************************************************************)
\* What a call returns: Ok with the image it made (the action adds it to the
\* store), Err with a message, or no return at all: the call aborted, Panic on
\* an index out of range, OverflowPanic on an arithmetic overflow in a build
\* with overflow checks.
NoImage == NewImage(0, 0, <<>>, "none")

Ok(image) == [kind |-> "Ok", msg |-> <<>>, image |-> image]

Err(msg) == [kind |-> "Err", msg |-> msg, image |-> NoImage]

Panic == [kind |-> "Panic", msg |-> <<>>, image |-> NoImage]

\* The abort of a build with overflow checks on a usize subtraction.
OverflowMsg == <<"attempt to subtract with overflow">>

OverflowPanic == [kind |-> "Panic", msg |-> OverflowMsg, image |-> NoImage]

NotLoadedMsg == <<"Not all textures are loaded yet.">>

FormatMsg(format) ==
    <<"Not all textures have the configured texture format '", format, "'.">>

NoTilesMsg == <<"No tiles were provided!">>

(***************************************************************************)
(* TileMapTextureCreator  (src/src/tile_map_texture.rs)                    *)
(***************************************************************************)
\* TileMapTextureCreator::new
NewCreator(texture_format, tile_width, tile_height) ==
    [texture_format |-> texture_format,
     bytes_per_pixel |-> pixel_size(texture_format),
     tile_width |-> tile_width,
     tile_height |-> tile_height]

\* ResolveTile with the message formatted from the tile's format instead of
\* the configured one.
ResolveTileNamingTileFormat(c, imgs, placement) ==
    IF ~Resolves(imgs, placement.handle)
    THEN Err(NotLoadedMsg)
    ELSE IF imgs[placement.handle].format = c.texture_format
         THEN Ok(imgs[placement.handle])
         ELSE Err(FormatMsg(imgs[placement.handle].format))

\* The closure of lines 35-47 on one (pos, handle): the handle is looked up
\* first, the format of the image found is compared second.
ResolveTile(c, imgs, placement) ==
    IF ~Resolves(imgs, placement.handle)
    THEN Err(NotLoadedMsg)
    ELSE IF imgs[placement.handle].format = c.texture_format
         THEN Ok(imgs[placement.handle])
         ELSE Err(FormatMsg(c.texture_format))

\* FirstFailure with two passes over the input: every handle is looked up
\* before any format is compared.
FirstFailureResolvingFirst(c, imgs, placements, i) ==
    LET unresolved == {j \in i..Len(placements) : ~Resolves(imgs, placements[j].handle)}
        other == {j \in i..Len(placements) :
                     /\ Resolves(imgs, placements[j].handle)
                     /\ imgs[placements[j].handle].format # c.texture_format}
    IN  IF unresolved # {} THEN SetMin(unresolved)
        ELSE IF other # {} THEN SetMin(other)
        ELSE 0

\* FirstFailure with the whole input walked and the last Err kept.
LastFailure(c, imgs, placements, i) ==
    LET failing == {j \in i..Len(placements) :
                       ~Resolves(imgs, placements[j].handle)
                       \/ imgs[placements[j].handle].format # c.texture_format}
    IN  IF failing = {} THEN 0 ELSE SetMax(failing)

\* collect::<Result<HashMap, String>>: the closure runs on the placements in
\* their order and the first Err ends the collection.  0 when none fails,
\* otherwise the index of the first placement that fails.
RECURSIVE FirstFailure(_, _, _, _)
FirstFailure(c, imgs, placements, i) ==
    IF i > Len(placements)
    THEN 0
    ELSE IF ResolveTile(c, imgs, placements[i]).kind = "Err"
         THEN i
         ELSE FirstFailure(c, imgs, placements, i + 1)

\* The HashMap collected: a later placement of a position replaces an earlier.
PositionTextureMap(imgs, placements) ==
    [pos \in {placements[i].pos : i \in 1..Len(placements)} |->
        LET last == SetMax({i \in 1..Len(placements) : placements[i].pos = pos})
        IN  imgs[placements[last].handle]]

get_max_x(positions) ==
    IF positions = {}
    THEN [ok |-> FALSE, value |-> 0]
    ELSE [ok |-> TRUE, value |-> AsUsize(SetMax({pos.x : pos \in positions}))]

get_min_x(positions) ==
    IF positions = {}
    THEN [ok |-> FALSE, value |-> 0]
    ELSE [ok |-> TRUE, value |-> AsUsize(SetMin({pos.x : pos \in positions}))]

get_max_y(positions) ==
    IF positions = {}
    THEN [ok |-> FALSE, value |-> 0]
    ELSE [ok |-> TRUE, value |-> AsUsize(SetMax({pos.y : pos \in positions}))]

get_min_y(positions) ==
    IF positions = {}
    THEN [ok |-> FALSE, value |-> 0]
    ELSE [ok |-> TRUE, value |-> AsUsize(SetMin({pos.y : pos \in positions}))]

\* Line 140: the index read from the tile's buffer.
ImageIndex(c, x, y, i) ==
    y * c.tile_height * c.bytes_per_pixel + x * c.bytes_per_pixel + i

\* Lines 142-147: the index written in the output buffer.
TilesTextureIndex(c, width, pos, x, y, i) ==
    (width * c.tile_width * c.bytes_per_pixel) * (pos.y * c.tile_height)
        + (pos.x * c.tile_width * c.bytes_per_pixel)
        + (c.tile_height * c.bytes_per_pixel * width * y)
        + x * c.bytes_per_pixel
        + i

\* The three nested loops of add_data_from_tile_image_at_position, from their
\* n-th iteration on (y outermost, i innermost).  buf is [ok, data]: ok turns
\* FALSE at the first index out of range, which aborts the call.
RECURSIVE CopyTileFrom(_, _, _, _, _, _)
CopyTileFrom(c, width, buf, pos, image_data, n) ==
    IF ~buf.ok \/ n >= c.tile_height * c.tile_width * c.bytes_per_pixel
    THEN buf
    ELSE LET y == n \div (c.tile_width * c.bytes_per_pixel)
             x == (n \div c.bytes_per_pixel) % c.tile_width
             i == n % c.bytes_per_pixel
             image_index == ImageIndex(c, x, y, i)
             tiles_texture_index == TilesTextureIndex(c, width, pos, x, y, i)
         IN  IF InRange(image_data, image_index) /\ InRange(buf.data, tiles_texture_index)
             THEN CopyTileFrom(c, width,
                      [ok |-> TRUE,
                       data |-> [buf.data EXCEPT ![tiles_texture_index + 1] =
                                                    At(image_data, image_index)]],
                      pos, image_data, n + 1)
             ELSE [ok |-> FALSE, data |-> buf.data]

add_data_from_tile_image_at_position(c, width, buf, pos, image_data) ==
    CopyTileFrom(c, width, buf, pos, image_data, 0)

\* The range lo..=hi of usize values, as the sequence the loop walks.
RangeInclusive(lo, hi) == IF lo > hi THEN <<>> ELSE [k \in 1..(hi - lo + 1) |-> lo + k - 1]

Reverse(s) == [k \in 1..Len(s) |-> s[Len(s) + 1 - k]]

\* Lines 60-74: the cells in the order they are visited, y from max_y down to
\* min_y and x from min_x up to max_x.
CellOrder(min_x, max_x, min_y, max_y) ==
    LET ys == Reverse(RangeInclusive(min_y, max_y))
        xs == RangeInclusive(min_x, max_x)
    IN  [k \in 1..(Len(ys) * Len(xs)) |->
            [x |-> xs[((k - 1) % Len(xs)) + 1], y |-> ys[((k - 1) \div Len(xs)) + 1]]]

\* p!(x, y): a Position of the two values cast to isize.
P(x, y) == [x |-> AsIsize(x), y |-> AsIsize(y)]

RECURSIVE CopyCellsFrom(_, _, _, _, _, _, _, _)
CopyCellsFrom(c, map, width, min_x, max_y, cells, buf, k) ==
    IF ~buf.ok \/ k > Len(cells)
    THEN buf
    ELSE LET absolute_pos == P(cells[k].x, cells[k].y)
             relative_pos == P(cells[k].x - min_x, max_y - cells[k].y)
         IN  IF absolute_pos \in DOMAIN map
             THEN CopyCellsFrom(c, map, width, min_x, max_y, cells,
                      add_data_from_tile_image_at_position(
                          c, width, buf, relative_pos, map[absolute_pos].data),
                      k + 1)
             ELSE CopyCellsFrom(c, map, width, min_x, max_y, cells, buf, k + 1)

\* Lines 155-166.
create_image_from_data(c, max_x, max_y, data) ==
    NewImage(max_x * c.tile_width, max_y * c.tile_height, data, c.texture_format)

\* Lines 55-56: max - min of two usize values.  The subtraction overflows when
\* max < min; a build with overflow checks aborts there, one without wraps.
SubOverflows(max, min) == max < min

WrappingSub(max, min) == (max - min) % UsizeModulus

\* create_tile_map_texture up to the image it hands to Assets::add.
\* overflow_checks: whether the build aborts on arithmetic overflow.
create_tile_map_texture(c, imgs, placements, overflow_checks) ==
    LET failure == FirstFailure(c, imgs, placements, 1)
    IN  IF failure # 0
        THEN ResolveTile(c, imgs, placements[failure])
        ELSE
        LET position_texture_map == PositionTextureMap(imgs, placements)
            keys == DOMAIN position_texture_map
            max_x == get_max_x(keys)
            min_x == get_min_x(keys)
            max_y == get_max_y(keys)
            min_y == get_min_y(keys)
        IN  IF ~max_x.ok \/ ~min_x.ok \/ ~max_y.ok \/ ~min_y.ok
            THEN Err(NoTilesMsg)
            ELSE IF overflow_checks /\ (SubOverflows(max_x.value, min_x.value)
                                        \/ SubOverflows(max_y.value, min_y.value))
            THEN OverflowPanic
            ELSE
            LET width == WrappingSub(max_x.value, min_x.value) + 1
                height == WrappingSub(max_y.value, min_y.value) + 1
                data == Zeros((width * c.tile_width * c.bytes_per_pixel)
                                  * (height * c.tile_height))
                cells == CellOrder(min_x.value, max_x.value, min_y.value, max_y.value)
                filled == CopyCellsFrom(c, position_texture_map, width, min_x.value,
                                        max_y.value, cells, [ok |-> TRUE, data |-> data], 1)
            IN  IF filled.ok
                THEN Ok(create_image_from_data(c, width, height, filled.data))
                ELSE Panic

(***************************************************************************)
(* mash_textures  (src/src/texture_mashup.rs)                              *)
(***************************************************************************)
\* Offset::new
NewOffset(x, y, z) == [x |-> x, y |-> y, z |-> z]

NotRetrievedMsg ==
    <<"Some textures could not be retrieved. Maybe they aren't loaded yet">>

NoHandlesMsg == <<"No texture handles were provided">>

\* AllRetrieved with "some handle has an image" for "every handle has one".
AnyRetrieved(imgs, offsets_handles) ==
    \E i \in 1..Len(offsets_handles) : Resolves(imgs, offsets_handles[i].handle)

\* Lines 27-30: collect::<Option<Vec>>: None when some handle has no image.
AllRetrieved(imgs, offsets_handles) ==
    \A i \in 1..Len(offsets_handles) : Resolves(imgs, offsets_handles[i].handle)

OffsetsTextures(imgs, offsets_handles) ==
    [i \in 1..Len(offsets_handles) |->
        [offset |-> offsets_handles[i].offset,
         texture |-> imgs[offsets_handles[i].handle]]]

\* ZLess with the comparison made on "not greater": equal z change places.
ZLessOrEqual(a, b) == a.offset.z <= b.offset.z

\* The comparison of line 37: whether a must come before b.
ZLess(a, b) == a.offset.z < b.offset.z

\* e put into the sorted s behind every element that is not greater than it.
InsertSorted(s, e) ==
    LET before == Cardinality({j \in 1..Len(s) : ~ZLess(e, s[j])})
    IN  [j \in 1..(Len(s) + 1) |->
            IF j <= before THEN s[j] ELSE IF j = before + 1 THEN e ELSE s[j - 1]]

\* slice::sort_by, a stable sort: equal elements keep their order.
RECURSIVE SortFrom(_, _, _)
SortFrom(s, sorted, i) ==
    IF i > Len(s) THEN sorted ELSE SortFrom(s, InsertSorted(sorted, s[i]), i + 1)

sort_by(s) == SortFrom(s, <<>>, 1)

\* Line 60: the index written in the output buffer.
MashTextureIndex(image_width, offset, x, y) ==
    image_width * 4 * (y + offset.y) + (x + offset.x) * 4

\* Line 61: the index read from the texture's buffer.
PartTextureIndex(part_width, x, y) == part_width * 4 * y + x * 4

\* Lines 58-68 from their n-th iteration on (y outer, x inner).
RECURSIVE CopyPartFrom(_, _, _, _, _)
CopyPartFrom(image_width, buf, offset, part, n) ==
    IF ~buf.ok \/ n >= part.height * part.width
    THEN buf
    ELSE LET y == n \div part.width
             x == n % part.width
             m == MashTextureIndex(image_width, offset, x, y)
             q == PartTextureIndex(part.width, x, y)
         IN  IF InRange(buf.data, m) /\ InRange(buf.data, m + 3)
                /\ InRange(part.data, q) /\ InRange(part.data, q + 3)
             THEN CopyPartFrom(image_width,
                      [ok |-> TRUE,
                       data |-> [buf.data EXCEPT ![m + 1] = At(part.data, q),
                                                 ![m + 2] = At(part.data, q + 1),
                                                 ![m + 3] = At(part.data, q + 2),
                                                 ![m + 4] = At(part.data, q + 3)]],
                      offset, part, n + 1)
             ELSE [ok |-> FALSE, data |-> buf.data]

\* Lines 53-69: the textures copied in their sorted order.
RECURSIVE CopyPartsFrom(_, _, _, _)
CopyPartsFrom(image_width, offsets_textures, buf, k) ==
    IF ~buf.ok \/ k > Len(offsets_textures)
    THEN buf
    ELSE CopyPartsFrom(image_width, offsets_textures,
             CopyPartFrom(image_width, buf, offsets_textures[k].offset,
                          offsets_textures[k].texture, 0),
             k + 1)

\* MashImageWidth with the offsets left out of the sum.
MashImageWidthOfTextures(offsets_textures) ==
    SetMax({offsets_textures[i].texture.width : i \in 1..Len(offsets_textures)})

\* Lines 39-43, of a sequence that is not empty.
MashImageWidth(offsets_textures) ==
    SetMax({offsets_textures[i].offset.x + offsets_textures[i].texture.width
                : i \in 1..Len(offsets_textures)})

\* Lines 45-49, of a sequence that is not empty.
MashImageHeight(offsets_textures) ==
    SetMax({offsets_textures[i].offset.y + offsets_textures[i].texture.height
                : i \in 1..Len(offsets_textures)})

\* mash_textures up to the image it hands to Assets::add.
mash_textures(imgs, offsets_handles) ==
    IF ~AllRetrieved(imgs, offsets_handles)
    THEN Err(NotRetrievedMsg)
    ELSE
    LET offsets_textures == sort_by(OffsetsTextures(imgs, offsets_handles))
        n == Len(offsets_textures)
    IN  IF n = 0
        THEN Err(NoHandlesMsg)
        ELSE
        LET image_width == MashImageWidth(offsets_textures)
            image_height == MashImageHeight(offsets_textures)
            image_data == Zeros(image_width * image_height * 4)
            filled == CopyPartsFrom(image_width, offsets_textures,
                                    [ok |-> TRUE, data |-> image_data], 1)
        IN  IF filled.ok
            THEN Ok(NewImage(image_width, image_height, filled.data, Rgba8UnormSrgb))
            ELSE Panic

(***************************************************************************)
(* modify_texture, map_to_new_texture, map_to_texture_pixels               *)
(* (src/src/texture_modification.rs)                                       *)
(***************************************************************************)
RED == <<255, 0, 0, 255>>

GREEN == <<0, 255, 0, 255>>

BLUE == <<0, 0, 255, 255>>

YELLOW == <<255, 255, 0, 255>>

\* The pixel filters handed to map_to_texture_pixels.
Filter(filter, pixel) ==
    CASE filter = "is_blue" -> pixel = BLUE
      [] filter = "is_red" -> pixel = RED
      [] filter = "all" -> TRUE

\* map_to_texture_pixels with the stamp's pixel mixed into the pixel given
\* instead of replacing it.
MapToTexturePixelsBlending(stamp, filter, x0, y0, pixel) ==
    IF ~Filter(filter, pixel)
    THEN [ok |-> TRUE, pixel |-> pixel]
    ELSE LET index == stamp.width * 4 * (y0 % stamp.height) + (x0 % stamp.width) * 4
         IN  IF InRange(stamp.data, index) /\ InRange(stamp.data, index + 3)
             THEN [ok |-> TRUE,
                   pixel |-> <<(pixel[1] + At(stamp.data, index)) \div 2,
                               (pixel[2] + At(stamp.data, index + 1)) \div 2,
                               (pixel[3] + At(stamp.data, index + 2)) \div 2,
                               (pixel[4] + At(stamp.data, index + 3)) \div 2>>]
             ELSE [ok |-> FALSE, pixel |-> pixel]

\* map_to_texture_pixels with the stamp sampled at (x0, y0) itself, not at the
\* remainders.
MapToTexturePixelsUnwrapped(stamp, filter, x0, y0, pixel) ==
    IF ~Filter(filter, pixel)
    THEN [ok |-> TRUE, pixel |-> pixel]
    ELSE LET index == stamp.width * 4 * y0 + x0 * 4
         IN  IF InRange(stamp.data, index) /\ InRange(stamp.data, index + 3)
             THEN [ok |-> TRUE,
                   pixel |-> <<At(stamp.data, index), At(stamp.data, index + 1),
                               At(stamp.data, index + 2), At(stamp.data, index + 3)>>]
             ELSE [ok |-> FALSE, pixel |-> pixel]

\* Lines 57-70: the closure map_to_texture_pixels returns.  [ok, pixel]: ok is
\* FALSE when an index is out of the stamp's buffer.
map_to_texture_pixels(stamp, filter, x0, y0, pixel) ==
    IF ~Filter(filter, pixel)
    THEN [ok |-> TRUE, pixel |-> pixel]
    ELSE LET width == stamp.width
             x == x0 % width
             y == y0 % stamp.height
             index == width * 4 * y + x * 4
         IN  IF InRange(stamp.data, index) /\ InRange(stamp.data, index + 3)
             THEN [ok |-> TRUE,
                   pixel |-> <<At(stamp.data, index), At(stamp.data, index + 1),
                               At(stamp.data, index + 2), At(stamp.data, index + 3)>>]
             ELSE [ok |-> FALSE, pixel |-> pixel]

\* The pixel mappers of the model: a mapper is a record of its kind and of
\* what the closure captures.
\*   identity        |_, _, pixels| pixels
\*   blue_to_green   the closure of the tests (lines 93-97)
\*   tag             a mapper that depends on x, y and every byte of the pixel
\*   stamp           map_to_texture_pixels(stamp, filter)
ApplyMapper(mapper, x, y, pixel) ==
    CASE mapper.kind = "identity" -> [ok |-> TRUE, pixel |-> pixel]
      [] mapper.kind = "blue_to_green" ->
            [ok |-> TRUE, pixel |-> IF pixel = BLUE THEN GREEN ELSE pixel]
      [] mapper.kind = "tag" ->
            [ok |-> TRUE,
             pixel |-> <<10 * x + y + 1, pixel[1], pixel[2], pixel[3] \div 2 + pixel[4] \div 2>>]
      [] mapper.kind = "stamp" ->
            map_to_texture_pixels(mapper.stamp, mapper.filter, x, y, pixel)

\* PixelIndex with x and y taken for each other.
PixelIndexTransposed(width, x, y) == width * 4 * x + y * 4

\* Line 19.
PixelIndex(width, x, y) == width * 4 * y + x * 4

\* Lines 17-35 from their n-th iteration on (x outer, y inner).  st is
\* [ok, data, calls]: calls lists the mapper's invocations <<x, y, pixel>>.
RECURSIVE ModifyFrom(_, _, _, _, _)
ModifyFrom(width, height, mapper, st, n) ==
    IF ~st.ok \/ n >= width * height
    THEN st
    ELSE LET x == n \div height
             y == n % height
             index == PixelIndex(width, x, y)
         IN  IF ~(InRange(st.data, index) /\ InRange(st.data, index + 3))
             THEN [st EXCEPT !.ok = FALSE]
             ELSE LET pixel == <<At(st.data, index), At(st.data, index + 1),
                                 At(st.data, index + 2), At(st.data, index + 3)>>
                      mapped == ApplyMapper(mapper, x, y, pixel)
                      new_pixel == mapped.pixel
                  IN  IF ~mapped.ok
                      THEN [st EXCEPT !.ok = FALSE,
                                      !.calls = Append(@, <<x, y, pixel>>)]
                      ELSE ModifyFrom(width, height, mapper,
                               [ok |-> TRUE,
                                data |-> [st.data EXCEPT ![index + 1] = new_pixel[1],
                                                         ![index + 2] = new_pixel[2],
                                                         ![index + 3] = new_pixel[3],
                                                         ![index + 4] = new_pixel[4]],
                                calls |-> Append(st.calls, <<x, y, pixel>>)],
                               n + 1)

\* modify_texture: [ok, data, calls], data the texture's buffer afterwards.
modify_texture(t, mapper) ==
    ModifyFrom(t.width, t.height, mapper, [ok |-> TRUE, data |-> t.data, calls |-> <<>>], 0)

\* map_to_new_texture with the clone left out: the texture given is modified
\* and returned.
MapToNewTextureInPlace(t, mapper) ==
    LET modified == modify_texture(t, mapper)
    IN  [ok |-> modified.ok, image |-> [t EXCEPT !.data = modified.data],
         calls |-> modified.calls, texture |-> [t EXCEPT !.data = modified.data]]

\* map_to_new_texture: the clone modified; the texture given is only read.
\* image is the image returned, texture the texture given as the call leaves it.
map_to_new_texture(t, mapper) ==
    LET new_image == t
        modified == modify_texture(new_image, mapper)
    IN  [ok |-> modified.ok, image |-> [new_image EXCEPT !.data = modified.data],
         calls |-> modified.calls, texture |-> t]

(***************************************************************************)
(* The state machine.  One behaviour is one creator, one store and one     *)
(* call on them; modify_texture may be called a second time.               *)
(*   creator      the TileMapTextureCreator                                *)
(*   images       the store, Assets<Image>: images[h] is the image of      *)
(*                handle h                                                 *)
(*   texture      the image the caller of modify_texture lends mutably     *)
(*   pc           "idle" before the call, "done" after it, "twice" after   *)
(*                modify_texture was called a second time                  *)
(*   call         the operation called and its arguments (for a call on   *)
(*                the store, the store as it was when the call began)      *)
(*   result       what the call returned                                   *)
(*   mapperCalls  the invocations of the pixel mapper, in order            *)
(***************************************************************************)
\* The handles given to create_tile_map_texture and to mash_textures.
TileHandles == {UnloadedHandle, 1, 2, 3, 4}

MashHandles == {UnloadedHandle, 1, 4}

TilePlacement == [pos : [x : GridXs, y : GridYs], handle : TileHandles]

TilePlacements == UNION {[1..n -> TilePlacement] : n \in 0..MaxPlacements}

MashPlacement == [offset : [x : OffsetXs, y : OffsetYs, z : OffsetZs], handle : MashHandles]

MashPlacements == UNION {[1..n -> MashPlacement] : n \in 0..MaxPlacements}

\* The textures given to modify_texture and map_to_new_texture: every size up
\* to MaxTextureSide, filled with a checkerboard of RED and BLUE starting with
\* either, or with bytes that are pairwise different.
Checker(first, second, x, y) == IF (x + y) % 2 = 0 THEN first ELSE second

\* The buffer of a width x height checkerboard of two pixels.
CheckerData(width, height, first, second) ==
    [k \in 1..(width * height * 4) |->
        Checker(first, second, ((k - 1) \div 4) % width,
                ((k - 1) \div 4) \div width)[((k - 1) % 4) + 1]]

InputTextures ==
    UNION {{NewImage(w, h, CheckerData(w, h, RED, BLUE), Rgba8UnormSrgb),
            NewImage(w, h, CheckerData(w, h, BLUE, RED), Rgba8UnormSrgb),
            NewImage(w, h, Pattern(17, w * h * 4), Rgba8UnormSrgb)}
           : w \in 1..MaxTextureSide, h \in 1..MaxTextureSide}

\* The textures map_to_texture_pixels samples.
StampTextures ==
    {NewImage(1, 1, YELLOW, Rgba8UnormSrgb),
     NewImage(2, 1, YELLOW \o GREEN, Rgba8UnormSrgb),
     NewImage(1, 2, BLUE \o YELLOW, Rgba8UnormSrgb),
     NewImage(2, 2, YELLOW \o GREEN \o RED \o BLUE, Rgba8UnormSrgb)}

Mappers ==
    {[kind |-> "identity"], [kind |-> "blue_to_green"], [kind |-> "tag"]}
        \cup [kind : {"stamp"}, stamp : StampTextures, filter : {"is_blue", "all"}]

NoCall == [op |-> "none"]

NoResult == [kind |-> "none", msg |-> <<>>, image |-> NoImage, handle |-> 0]

\* The result as the caller gets it: Ok holds the handle Assets::add gave.
Returned(r, imgs) ==
    [kind |-> r.kind, msg |-> r.msg, image |-> r.image,
     handle |-> IF r.kind = "Ok" THEN Len(imgs) + 1 ELSE 0]

Init ==
    /\ \E size \in TileSizes :
          /\ creator = NewCreator(Rgba8UnormSrgb, size[1], size[2])
          /\ images = InitialImages(size[1], size[2])
    /\ texture = NoImage
    /\ pc = "idle"
    /\ call = NoCall
    /\ result = NoResult
    /\ mapperCalls = <<>>

\* creator.create_tile_map_texture(&mut images, placements), in a build with
\* or without overflow checks.
CreateTileMapTexture ==
    /\ pc = "idle"
    /\ \E placements \in TilePlacements, overflow_checks \in BOOLEAN :
          LET r == create_tile_map_texture(creator, images, placements, overflow_checks)
          IN  /\ call' = [op |-> "create_tile_map_texture", placements |-> placements,
                          images |-> images]
              /\ result' = Returned(r, images)
              /\ images' = IF r.kind = "Ok" THEN AssetsAdd(images, r.image) ELSE images
    /\ pc' = "done"
    /\ UNCHANGED <<creator, texture, mapperCalls>>

\* mash_textures(&mut images, placements)
MashTextures ==
    /\ pc = "idle"
    /\ \E placements \in MashPlacements :
          LET r == mash_textures(images, placements)
          IN  /\ call' = [op |-> "mash_textures", placements |-> placements,
                          images |-> images]
              /\ result' = Returned(r, images)
              /\ images' = IF r.kind = "Ok" THEN AssetsAdd(images, r.image) ELSE images
    /\ pc' = "done"
    /\ UNCHANGED <<creator, texture, mapperCalls>>

\* modify_texture(&mut texture, mapper) on a texture of the caller's.
ModifyTexture ==
    /\ pc = "idle"
    /\ \E t \in InputTextures, mapper \in Mappers :
          LET r == modify_texture(t, mapper)
          IN  /\ call' = [op |-> "modify_texture", texture |-> t, mapper |-> mapper]
              /\ texture' = [t EXCEPT !.data = r.data]
              /\ mapperCalls' = r.calls
              /\ result' = [NoResult EXCEPT !.kind = IF r.ok THEN "Unit" ELSE "Panic"]
    /\ pc' = "done"
    /\ UNCHANGED <<creator, images>>

\* map_to_new_texture(&texture, mapper): the texture stays the caller's, the
\* new image is returned.
MapToNewTexture ==
    /\ pc = "idle"
    /\ \E t \in InputTextures, mapper \in Mappers :
          LET r == map_to_new_texture(t, mapper)
          IN  /\ call' = [op |-> "map_to_new_texture", texture |-> t, mapper |-> mapper]
              /\ texture' = r.texture
              /\ mapperCalls' = r.calls
              /\ result' = IF r.ok
                           THEN [NoResult EXCEPT !.kind = "Image", !.image = r.image]
                           ELSE [NoResult EXCEPT !.kind = "Panic"]
    /\ pc' = "done"
    /\ UNCHANGED <<creator, images>>

\* modify_texture(&mut texture, mapper) once more, on the texture the first
\* call left and with the mapper of the first call.  call.once keeps the
\* texture as the first call left it.
ModifyTextureAgain ==
    /\ pc = "done"
    /\ call.op = "modify_texture"
    /\ result.kind = "Unit"
    /\ LET r == modify_texture(texture, call.mapper)
       IN  /\ call' = [op |-> "modify_texture", texture |-> call.texture,
                       mapper |-> call.mapper, once |-> texture]
           /\ texture' = [texture EXCEPT !.data = r.data]
           /\ mapperCalls' = r.calls
           /\ result' = [NoResult EXCEPT !.kind = IF r.ok THEN "Unit" ELSE "Panic"]
    /\ pc' = "twice"
    /\ UNCHANGED <<creator, images>>

Next ==
    \/ CreateTileMapTexture
    \/ MashTextures
    \/ ModifyTexture
    \/ MapToNewTexture
    \/ ModifyTextureAgain

Spec == Init /\ [][Next]_vars

(***************************************************************************)
(* Sequences of calls on one store.  A behaviour is one creator of 2 x 2   *)
(* tiles, one store and up to MaxCalls calls of create_tile_map_texture    *)
(* and mash_textures on it; a call may be given the image an earlier call  *)
(* added.  call holds the operation called last, the store as it was when  *)
(* that call began and the number of calls made.  A call that aborts ends  *)
(* the behaviour.                                                          *)
(***************************************************************************)
\* The store the sequences start with: a tile and a tile of another format.
StoreInitialImages == <<InitialImages(2, 2)[1], InitialImages(2, 2)[3]>>

\* The handles given: one of no image, the first image, the newest image.
StoreHandles(imgs) == {UnloadedHandle, 1, Len(imgs)}

StoreTilePlacement(imgs) == [pos : [x : {0, 1}, y : {0}], handle : StoreHandles(imgs)]

StoreMashPlacement(imgs) ==
    [offset : [x : {0, 1}, y : {0}, z : {0}], handle : StoreHandles(imgs)]

\* The numbers of placements given to one call of a sequence.
StorePlacementCounts == {0, 1, 2}

InitStore ==
    /\ creator = NewCreator(Rgba8UnormSrgb, 2, 2)
    /\ images = StoreInitialImages
    /\ texture = NoImage
    /\ pc = "idle"
    /\ call = [op |-> "none", images |-> <<>>, count |-> 0]
    /\ result = NoResult
    /\ mapperCalls = <<>>

\* creator.create_tile_map_texture(&mut images, placements) as one more call
\* on the store.
StoreCreateTileMapTexture ==
    /\ call.count < MaxCalls
    /\ result.kind # "Panic"
    /\ \E n \in StorePlacementCounts :
          \E placements \in [1..n -> StoreTilePlacement(images)] :
             LET r == create_tile_map_texture(creator, images, placements, TRUE)
             IN  /\ call' = [op |-> "create_tile_map_texture", images |-> images,
                             count |-> call.count + 1]
                 /\ result' = Returned(r, images)
                 /\ images' = IF r.kind = "Ok" THEN AssetsAdd(images, r.image) ELSE images
    /\ pc' = "done"
    /\ UNCHANGED <<creator, texture, mapperCalls>>

\* mash_textures(&mut images, placements) as one more call on the store.
StoreMashTextures ==
    /\ call.count < MaxCalls
    /\ result.kind # "Panic"
    /\ \E n \in StorePlacementCounts :
          \E placements \in [1..n -> StoreMashPlacement(images)] :
             LET r == mash_textures(images, placements)
             IN  /\ call' = [op |-> "mash_textures", images |-> images,
                             count |-> call.count + 1]
                 /\ result' = Returned(r, images)
                 /\ images' = IF r.kind = "Ok" THEN AssetsAdd(images, r.image) ELSE images
    /\ pc' = "done"
    /\ UNCHANGED <<creator, texture, mapperCalls>>

NextStore ==
    \/ StoreCreateTileMapTexture
    \/ StoreMashTextures

SpecStore == InitStore /\ [][NextStore]_vars

(***************************************************************************)
(* What the claims speak of, read from the state after a call.             *)
(***************************************************************************)
IsTileCall == pc = "done" /\ call.op = "create_tile_map_texture"

IsMashCall == pc = "done" /\ call.op = "mash_textures"

IsModifyCall == pc = "done" /\ call.op = "modify_texture"

\* The store as it was before the call.
StoreBefore == call.images

PlacementIndices == 1..Len(call.placements)

HandleResolves(i) == call.placements[i].handle \in 1..Len(StoreBefore)

AllHandlesResolve == \A i \in PlacementIndices : HandleResolves(i)

GivenImage(i) == StoreBefore[call.placements[i].handle]

FormatMatches(i) == GivenImage(i).format = creator.texture_format

SizeMatches(i) ==
    /\ GivenImage(i).width = creator.tile_width
    /\ GivenImage(i).height = creator.tile_height

\* No image was made: the store is the one before the call.
NoImageMade == images = StoreBefore

ReturnedErr(msg) == result.kind = "Err" /\ result.msg = msg /\ NoImageMade

\* Ok: the image made is the one image added to the store, under the handle
\* returned.
ReturnedOk ==
    /\ result.kind = "Ok"
    /\ images = Append(StoreBefore, result.image)
    /\ result.handle = Len(images)

PlacedPositions == {call.placements[i].pos : i \in PlacementIndices}

\* The tile the placement map holds for a position: the last one given for it.
PlacedTile(pos) ==
    GivenImage(SetMax({i \in PlacementIndices : call.placements[i].pos = pos}))

GridMinX == SetMin({pos.x : pos \in PlacedPositions})

GridMaxX == SetMax({pos.x : pos \in PlacedPositions})

GridMinY == SetMin({pos.y : pos \in PlacedPositions})

GridMaxY == SetMax({pos.y : pos \in PlacedPositions})

\* Byte i of pixel (x, y) of an image, by the layout of the spec: row-major,
\* 4 bytes per pixel.  -1 stands for a pixel outside the buffer.
PixelByte(image, x, y, i) ==
    LET k == (y * image.width + x) * 4 + i
    IN  IF x >= 0 /\ x < image.width /\ y >= 0 /\ k < Len(image.data)
        THEN image.data[k + 1]
        ELSE -1

\* Every placement is a tile that resolves and has the configured format and
\* size.
AllTilesMatch ==
    \A i \in PlacementIndices : HandleResolves(i) /\ FormatMatches(i) /\ SizeMatches(i)

(***************************************************************************)
(* The claims.                                                             *)
(***************************************************************************)
\* C1: for every tile size, square or not, and every non-empty placement of
\* resolved, matching tiles, create_tile_map_texture returns an image in which
\* pixel (lx, ly) of the tile placed at grid cell (gx, gy) is output pixel
\* ((gx - minX) * tileWidth + lx, (maxY - gy) * tileHeight + ly).
C1_TilePixelsAtGridCell ==
    (IsTileCall /\ call.placements # <<>> /\ AllTilesMatch) =>
        /\ result.kind = "Ok"
        /\ \A pos \in PlacedPositions :
            \A lx \in 0..(creator.tile_width - 1), ly \in 0..(creator.tile_height - 1),
               i \in 0..3 :
                PixelByte(result.image,
                          (pos.x - GridMinX) * creator.tile_width + lx,
                          (GridMaxY - pos.y) * creator.tile_height + ly, i)
                    = PixelByte(PlacedTile(pos), lx, ly, i)

\* C2: for every non-empty placement of resolved tiles of the configured
\* format at signed grid coordinates, create_tile_map_texture returns an image
\* of width (maxX - minX + 1) * tileWidth and height
\* (maxY - minY + 1) * tileHeight.
C2_OutputDimensions ==
    (IsTileCall /\ call.placements # <<>>
        /\ \A i \in PlacementIndices : HandleResolves(i) /\ FormatMatches(i)) =>
        /\ result.kind = "Ok"
        /\ result.image.width = (GridMaxX - GridMinX + 1) * creator.tile_width
        /\ result.image.height = (GridMaxY - GridMinY + 1) * creator.tile_height

\* C3: in the image of a successful create_tile_map_texture, every byte of
\* the region of a grid cell inside the bounding box that has no tile is zero.
C3_GapsAreZero ==
    (IsTileCall /\ result.kind = "Ok") =>
        \A gx \in GridMinX..GridMaxX, gy \in GridMinY..GridMaxY :
            [x |-> gx, y |-> gy] \notin PlacedPositions =>
                \A lx \in 0..(creator.tile_width - 1), ly \in 0..(creator.tile_height - 1),
                   i \in 0..3 :
                    PixelByte(result.image,
                              (gx - GridMinX) * creator.tile_width + lx,
                              (GridMaxY - gy) * creator.tile_height + ly, i) = 0

\* The placements of a mash_textures call that cover output pixel (px, py).
MashTexture(i) == StoreBefore[call.placements[i].handle]

Covers(i, px, py) ==
    LET o == call.placements[i].offset
        t == MashTexture(i)
    IN  /\ px >= o.x /\ px < o.x + t.width
        /\ py >= o.y /\ py < o.y + t.height

Covering(px, py) == {i \in PlacementIndices : Covers(i, px, py)}

\* Among placements that cover a pixel, the one drawn on top: of the greatest
\* z, and the latest given among those of that z.
OnTop(S) ==
    CHOOSE i \in S : \A j \in S :
        \/ call.placements[j].offset.z < call.placements[i].offset.z
        \/ call.placements[j].offset.z = call.placements[i].offset.z /\ j <= i

\* The bytes placement i holds for output pixel (px, py).
LayerByte(i, px, py, b) ==
    PixelByte(MashTexture(i), px - call.placements[i].offset.x,
              py - call.placements[i].offset.y, b)

\* C4: in the image of mash_textures, a pixel that two or more textures cover
\* holds the 4 bytes of the covering texture with the greatest z, and among
\* those of equal greatest z of the one given later.
C4_OverlapTakesGreatestZ ==
    (IsMashCall /\ result.kind = "Ok") =>
        \A px \in 0..(result.image.width - 1), py \in 0..(result.image.height - 1) :
            Cardinality(Covering(px, py)) >= 2 =>
                \A b \in 0..3 :
                    PixelByte(result.image, px, py, b)
                        = LayerByte(OnTop(Covering(px, py)), px, py, b)

\* A pixel covered by two textures of different bytes, the one given first of
\* the greater or of the same z.
C4_Witness ==
    /\ IsMashCall /\ result.kind = "Ok" /\ Len(call.placements) = 2
    /\ call.placements[1].offset.z >= call.placements[2].offset.z
    /\ \E px \in 0..(result.image.width - 1), py \in 0..(result.image.height - 1) :
          /\ Covering(px, py) = {1, 2}
          /\ LayerByte(1, px, py, 0) # LayerByte(2, px, py, 0)
          /\ PixelByte(result.image, px, py, 0)
                = LayerByte(IF call.placements[1].offset.z > call.placements[2].offset.z
                            THEN 1 ELSE 2, px, py, 0)

\* C5: for every non-empty sequence of resolved placements mash_textures
\* returns an image whose width is the greatest offset.x + width, whose height
\* is the greatest offset.y + height, and in which every pixel no texture
\* covers is four zero bytes.
C5_MashBoundsAndBackground ==
    (IsMashCall /\ call.placements # <<>> /\ AllHandlesResolve) =>
        /\ ReturnedOk
        /\ result.image.width =
              SetMax({call.placements[i].offset.x + MashTexture(i).width
                          : i \in PlacementIndices})
        /\ result.image.height =
              SetMax({call.placements[i].offset.y + MashTexture(i).height
                          : i \in PlacementIndices})
        /\ Len(result.image.data) = result.image.width * result.image.height * 4
        /\ \A px \in 0..(result.image.width - 1), py \in 0..(result.image.height - 1) :
              Covering(px, py) = {} =>
                  \A b \in 0..3 : PixelByte(result.image, px, py, b) = 0

\* Two textures that leave a pixel of the image uncovered.
C5_Witness ==
    /\ IsMashCall /\ result.kind = "Ok" /\ Len(call.placements) = 2
    /\ \E px \in 0..(result.image.width - 1), py \in 0..(result.image.height - 1) :
          /\ Covering(px, py) = {}
          /\ PixelByte(result.image, px, py, 3) = 0

\* C6: create_tile_map_texture and mash_textures called with no placement
\* return their empty-input error; they neither abort nor return an image.
C6_EmptyInputIsAnError ==
    /\ (IsTileCall /\ call.placements = <<>>) => ReturnedErr(NoTilesMsg)
    /\ (IsMashCall /\ call.placements = <<>>) => ReturnedErr(NoHandlesMsg)

C6_Witness ==
    IsMashCall /\ call.placements = <<>> /\ result.kind = "Err" /\ result.msg = NoHandlesMsg

\* The first placement whose handle does not resolve, and the first that
\* resolves to an image of another format than the configured one; 0 if none.
FirstUnresolved ==
    IF \E i \in PlacementIndices : ~HandleResolves(i)
    THEN SetMin({i \in PlacementIndices : ~HandleResolves(i)})
    ELSE 0

FirstOtherFormat ==
    IF \E i \in PlacementIndices : HandleResolves(i) /\ ~FormatMatches(i)
    THEN SetMin({i \in PlacementIndices : HandleResolves(i) /\ ~FormatMatches(i)})
    ELSE 0

\* C7 as stated: if a handle given to create_tile_map_texture or to
\* mash_textures does not resolve, the call returns the unresolved-handle
\* error and no image, wherever the handle is in the input.
C7_UnresolvedHandleError ==
    /\ (IsTileCall /\ FirstUnresolved # 0) => ReturnedErr(NotLoadedMsg)
    /\ (IsMashCall /\ FirstUnresolved # 0) => ReturnedErr(NotRetrievedMsg)

\* C7 as amended: the call returns an error and no image; the error is the
\* unresolved-handle error, except that create_tile_map_texture returns the
\* format-mismatch error when a tile of another format is given before the
\* first handle that does not resolve.
C7_UnresolvedHandleErrorInOrder ==
    /\ (IsTileCall /\ FirstUnresolved # 0) =>
          IF FirstOtherFormat # 0 /\ FirstOtherFormat < FirstUnresolved
          THEN ReturnedErr(FormatMsg(creator.texture_format))
          ELSE ReturnedErr(NotLoadedMsg)
    /\ (IsMashCall /\ FirstUnresolved # 0) => ReturnedErr(NotRetrievedMsg)

\* An unresolved handle given first, a tile of another format second.
C7_Witness ==
    /\ IsTileCall /\ Len(call.placements) = 2
    /\ FirstUnresolved = 1 /\ FirstOtherFormat = 2
    /\ result.kind = "Err" /\ result.msg = NotLoadedMsg

\* C8 as stated: if a resolved tile given to create_tile_map_texture has
\* another format than the configured one, the call returns the
\* format-mismatch error naming the configured format, and no image.
C8_FormatMismatchError ==
    (IsTileCall /\ FirstOtherFormat # 0) =>
        ReturnedErr(FormatMsg(creator.texture_format))

\* C8 as amended: so it does unless a handle that does not resolve is given
\* before the first tile of another format; then the call returns the
\* unresolved-handle error, and no image either.
C8_FormatMismatchErrorInOrder ==
    (IsTileCall /\ FirstOtherFormat # 0) =>
        IF FirstUnresolved # 0 /\ FirstUnresolved < FirstOtherFormat
        THEN ReturnedErr(NotLoadedMsg)
        ELSE ReturnedErr(FormatMsg(creator.texture_format))

\* A matching tile given first, a tile of another format second.
C8_Witness ==
    /\ IsTileCall /\ Len(call.placements) = 2
    /\ FirstUnresolved = 0 /\ FirstOtherFormat = 2
    /\ result.kind = "Err" /\ result.msg = FormatMsg(Rgba8UnormSrgb)

\* C9: if a resolved tile of the configured format has another width or
\* height than the configured ones, create_tile_map_texture returns the
\* format-mismatch error; it neither returns an image nor aborts.
C9_SizeMismatchError ==
    (IsTileCall /\ FirstUnresolved = 0 /\ FirstOtherFormat = 0
        /\ \E i \in PlacementIndices : ~SizeMatches(i)) =>
        ReturnedErr(FormatMsg(creator.texture_format))

\* Pixel (x, y) of a 4 byte per pixel image.
PixelAt(image, x, y) ==
    <<PixelByte(image, x, y, 0), PixelByte(image, x, y, 1),
      PixelByte(image, x, y, 2), PixelByte(image, x, y, 3)>>

\* C10: modify_texture invokes the mapper exactly once for every (x, y) of the
\* image, with the bytes pixel (x, y) held before the call, and writes what it
\* returns to that pixel and to no other: afterwards pixel (x, y) is
\* mapper(x, y, original(x, y)).
C10_ModifyMapsEveryPixelOnce ==
    IsModifyCall =>
        LET t == call.texture
        IN  /\ result.kind = "Unit"
            /\ texture.width = t.width /\ texture.height = t.height
            /\ texture.format = t.format
            /\ Len(texture.data) = Len(t.data)
            /\ Len(mapperCalls) = t.width * t.height
            /\ \A x \in 0..(t.width - 1), y \in 0..(t.height - 1) :
                  /\ Cardinality({k \in 1..Len(mapperCalls) :
                                     mapperCalls[k][1] = x /\ mapperCalls[k][2] = y}) = 1
                  /\ \A k \in 1..Len(mapperCalls) :
                        (mapperCalls[k][1] = x /\ mapperCalls[k][2] = y) =>
                            mapperCalls[k][3] = PixelAt(t, x, y)
                  /\ PixelAt(texture, x, y)
                        = ApplyMapper(call.mapper, x, y, PixelAt(t, x, y)).pixel

\* A texture of two rows whose every pixel the mapper changed.
C10_Witness ==
    /\ IsModifyCall /\ call.mapper.kind = "tag"
    /\ call.texture.width >= 1 /\ call.texture.height = 2
    /\ Len(mapperCalls) = call.texture.width * 2
    /\ \A x \in 0..(call.texture.width - 1), y \in 0..1 :
          PixelAt(texture, x, y) # PixelAt(call.texture, x, y)

IsMapToNewCall == pc = "done" /\ call.op = "map_to_new_texture"

\* C11: map_to_new_texture leaves the dimensions, the format and every byte of
\* the texture given as they were, and returns a new image of the same
\* dimensions whose buffer is the one modify_texture with the same mapper makes
\* of the texture given: pixel (x, y) is mapper(x, y, original(x, y)).
C11_MapToNewTextureLeavesInput ==
    IsMapToNewCall =>
        LET t == call.texture
        IN  /\ texture = t
            /\ result.kind = "Image"
            /\ result.image.width = t.width /\ result.image.height = t.height
            /\ result.image.format = t.format
            /\ result.image.data = modify_texture(t, call.mapper).data
            /\ \A x \in 0..(t.width - 1), y \in 0..(t.height - 1) :
                  PixelAt(result.image, x, y)
                      = ApplyMapper(call.mapper, x, y, PixelAt(t, x, y)).pixel

\* A red and blue texture mapped to a red and green one: the image returned
\* differs from the texture given, which still holds its blue pixels.
C11_Witness ==
    /\ IsMapToNewCall /\ call.mapper.kind = "blue_to_green"
    /\ result.kind = "Image"
    /\ result.image.data # call.texture.data
    /\ texture = call.texture
    /\ \E x \in 0..(texture.width - 1), y \in 0..(texture.height - 1) :
          PixelAt(texture, x, y) = BLUE /\ PixelAt(result.image, x, y) = GREEN

\* The call handed a mapper made by map_to_texture_pixels to modify_texture.
IsStampCall == IsModifyCall /\ call.mapper.kind = "stamp"

\* What the mapper of (stamp, filter) is to return for a pixel at (x, y).
StampedPixel(stamp, filter, x, y, pixel) ==
    IF Filter(filter, pixel)
    THEN PixelAt(stamp, x % stamp.width, y % stamp.height)
    ELSE pixel

\* C12: the mapper of map_to_texture_pixels(stamp, filter) returns the pixel
\* given when the filter rejects it and otherwise the stamp's pixel at
\* (x mod stampWidth, y mod stampHeight), at every coordinate of the target and
\* for every stamp, one smaller than the target included.
C12_StampMapperTiles ==
    IsStampCall =>
        /\ result.kind = "Unit"
        /\ Len(mapperCalls) = call.texture.width * call.texture.height
        /\ \A k \in 1..Len(mapperCalls) :
              LET x == mapperCalls[k][1]
                  y == mapperCalls[k][2]
                  pixel == mapperCalls[k][3]
                  expected == StampedPixel(call.mapper.stamp, call.mapper.filter, x, y, pixel)
              IN  /\ map_to_texture_pixels(call.mapper.stamp, call.mapper.filter, x, y, pixel)
                        = [ok |-> TRUE, pixel |-> expected]
                  /\ PixelAt(texture, x, y) = expected

\* A stamp one pixel wide on a target two pixels wide: a blue pixel in column 1
\* took the stamp's pixel of column 0, a red pixel was left as it was.
C12_Witness ==
    /\ IsStampCall /\ call.mapper.filter = "is_blue"
    /\ call.mapper.stamp.width = 1 /\ call.texture.width = 2
    /\ \E y \in 0..(call.texture.height - 1) :
          /\ PixelAt(call.texture, 1, y) = BLUE
          /\ PixelAt(texture, 1, y) = PixelAt(call.mapper.stamp, 0, y % call.mapper.stamp.height)
          /\ PixelAt(texture, 1, y) # BLUE
    /\ \E x \in 0..1, y \in 0..(call.texture.height - 1) :
          PixelAt(call.texture, x, y) = RED /\ PixelAt(texture, x, y) = RED

\* modify_texture was called twice with one mapper of map_to_texture_pixels.
IsStampedTwice == pc = "twice" /\ call.mapper.kind = "stamp"

\* C13: modify_texture applied twice with the same mapper of
\* map_to_texture_pixels(stamp, filter) leaves the buffer the first application
\* left: in the second, a pixel the filter still accepts takes the same stamp
\* pixel again and every other pixel is left alone.
C13_StampMapperIdempotent ==
    IsStampedTwice =>
        /\ result.kind = "Unit"
        /\ texture = call.once
        /\ \A x \in 0..(texture.width - 1), y \in 0..(texture.height - 1) :
              PixelAt(texture, x, y) =
                  IF Filter(call.mapper.filter, PixelAt(call.once, x, y))
                  THEN PixelAt(call.mapper.stamp, x % call.mapper.stamp.width,
                               y % call.mapper.stamp.height)
                  ELSE PixelAt(call.once, x, y)

\* The first application changed a pixel that the filter accepts again in the
\* second, which left it as the first made it.
C13_Witness ==
    /\ IsStampedTwice /\ result.kind = "Unit"
    /\ Len(mapperCalls) = texture.width * texture.height
    /\ \E x \in 0..(texture.width - 1), y \in 0..(texture.height - 1) :
          /\ PixelAt(call.once, x, y) # PixelAt(call.texture, x, y)
          /\ Filter(call.mapper.filter, PixelAt(call.once, x, y))
          /\ PixelAt(texture, x, y) = PixelAt(call.once, x, y)

\* What one call does to the store: images is the store before the call,
\* images' the store after it, result' what the call returned.
StoreStep ==
    /\ result'.kind = "Ok" =>
          /\ images' = Append(images, result'.image)
          /\ result'.handle = Len(images')
    /\ result'.kind = "Err" => images' = images
    /\ \A h \in 1..Len(images) : h <= Len(images') /\ images'[h] = images[h]

\* C14: over every sequence of calls of create_tile_map_texture and
\* mash_textures on one store, a call that returns Ok adds exactly one image to
\* the store, a call that returns Err adds none, and no call changes or removes
\* an image the store already held.
C14_StoreGrowsByOnePerOk == [][StoreStep]_vars

\* Two calls made, both Ok: the store holds the two images it began with and
\* the two images made, the second call's under the handle it returned.
C14_Witness ==
    /\ call.op # "none" /\ call.count = 2
    /\ result.kind = "Ok"
    /\ Len(call.images) = Len(StoreInitialImages) + 1
    /\ Len(images) = Len(StoreInitialImages) + 2
    /\ SubSeq(images, 1, 2) = StoreInitialImages
    /\ images[result.handle] = result.image
    /\ images[4] # images[3]

\* The indices add_data_from_tile_image_at_position writes for the tile at
\* relative position pos, in the order of its loops (lines 137-151).
TileWriteIndices(c, width, pos) ==
    [n \in 1..(c.tile_height * c.tile_width * c.bytes_per_pixel) |->
        LET y == (n - 1) \div (c.tile_width * c.bytes_per_pixel)
            x == ((n - 1) \div c.bytes_per_pixel) % c.tile_width
            i == (n - 1) % c.bytes_per_pixel
        IN  TilesTextureIndex(c, width, pos, x, y, i)]

\* The indices written while the cells are visited from the k-th on
\* (lines 60-74).
RECURSIVE CellWritesFrom(_, _, _, _, _, _, _)
CellWritesFrom(c, map, width, min_x, max_y, cells, k) ==
    IF k > Len(cells)
    THEN <<>>
    ELSE LET absolute_pos == P(cells[k].x, cells[k].y)
             relative_pos == P(cells[k].x - min_x, max_y - cells[k].y)
         IN  (IF absolute_pos \in DOMAIN map
              THEN TileWriteIndices(c, width, relative_pos)
              ELSE <<>>)
                 \o CellWritesFrom(c, map, width, min_x, max_y, cells, k + 1)

\* Every index of the output buffer a create_tile_map_texture call writes, in
\* order, for placements that all resolve to the configured format.
WrittenIndices(c, imgs, placements) ==
    LET position_texture_map == PositionTextureMap(imgs, placements)
        keys == DOMAIN position_texture_map
        max_x == get_max_x(keys).value
        min_x == get_min_x(keys).value
        max_y == get_max_y(keys).value
        min_y == get_min_y(keys).value
        width == WrappingSub(max_x, min_x) + 1
    IN  CellWritesFrom(c, position_texture_map, width, min_x, max_y,
                       CellOrder(min_x, max_x, min_y, max_y), 1)

\* The buffer the call makes when it visits the cells in the opposite order.
DataInReverseOrder(c, imgs, placements) ==
    LET position_texture_map == PositionTextureMap(imgs, placements)
        keys == DOMAIN position_texture_map
        max_x == get_max_x(keys).value
        min_x == get_min_x(keys).value
        max_y == get_max_y(keys).value
        min_y == get_min_y(keys).value
        width == WrappingSub(max_x, min_x) + 1
        height == WrappingSub(max_y, min_y) + 1
        data == Zeros((width * c.tile_width * c.bytes_per_pixel) * (height * c.tile_height))
    IN  CopyCellsFrom(c, position_texture_map, width, min_x, max_y,
                      Reverse(CellOrder(min_x, max_x, min_y, max_y)),
                      [ok |-> TRUE, data |-> data], 1).data

\* No index appears twice in a sequence of indices.
AtMostOnce(indices) ==
    \A j \in 1..Len(indices), k \in 1..Len(indices) : j # k => indices[j] # indices[k]

\* C15: during one create_tile_map_texture call, whatever the configured tile
\* width and height, every byte of the output buffer is written at most once,
\* and the buffer made is the same when the cells are visited in another order.
C15_EachByteWrittenOnce ==
    (IsTileCall /\ result.kind = "Ok" /\ AllTilesMatch) =>
        /\ AtMostOnce(WrittenIndices(creator, StoreBefore, call.placements))
        /\ DataInReverseOrder(creator, StoreBefore, call.placements) = result.image.data

\* C16 as stated: create_tile_map_texture looks up every handle before it
\* compares any format: given both a handle that does not resolve and a
\* resolved tile of another format, it returns the unresolved-handle error,
\* whichever of the two comes first in the input.
C16_ResolutionBeforeFormat ==
    (IsTileCall /\ FirstUnresolved # 0 /\ FirstOtherFormat # 0) =>
        ReturnedErr(NotLoadedMsg)

\* C16 as amended: create_tile_map_texture checks the placements one by one in
\* the order of the input, the handle first and the format second, and stops
\* at the first that fails: given both, it returns the unresolved-handle error
\* when the handle that does not resolve comes first and the format-mismatch
\* error when the tile of another format comes first.
C16_FirstFailingPlacementDecides ==
    (IsTileCall /\ FirstUnresolved # 0 /\ FirstOtherFormat # 0) =>
        /\ FirstUnresolved < FirstOtherFormat => ReturnedErr(NotLoadedMsg)
        /\ FirstOtherFormat < FirstUnresolved =>
              ReturnedErr(FormatMsg(creator.texture_format))

\* A tile of another format given first, a handle that does not resolve
\* second: the format-mismatch error is returned.
C16_Witness ==
    /\ IsTileCall /\ Len(call.placements) = 2
    /\ FirstOtherFormat = 1 /\ FirstUnresolved = 2
    /\ result.kind = "Err" /\ result.msg = FormatMsg(Rgba8UnormSrgb)
    /\ images = StoreBefore

\* The buffer invariant of an image of 4 bytes per pixel.
BufferInvariant(image) == Len(image.data) = image.width * image.height * 4

\* The call aborted on an index out of range.
AbortedOnIndex == result.kind = "Panic" /\ result.msg # OverflowMsg

\* C17: when every image given satisfies the buffer invariant (and every tile
\* has the configured width, height and format), every index that
\* create_tile_map_texture, mash_textures, modify_texture and the mapper of
\* map_to_texture_pixels read or write lies inside its buffer: no call aborts
\* on an index out of range.
C17_IndicesInRange ==
    /\ (IsTileCall /\ AllTilesMatch
            /\ \A i \in PlacementIndices : BufferInvariant(GivenImage(i))) =>
          ~AbortedOnIndex
    /\ (IsMashCall /\ AllHandlesResolve
            /\ \A i \in PlacementIndices : BufferInvariant(MashTexture(i))) =>
          ~AbortedOnIndex
    /\ ((IsModifyCall \/ IsMapToNewCall \/ pc = "twice")
            /\ BufferInvariant(call.texture)
            /\ (call.mapper.kind = "stamp" => BufferInvariant(call.mapper.stamp))) =>
          ~AbortedOnIndex

====
